---- MODULE Spec2Model ----
(***************************************************************************)
(* The production scheduling and inventory-reservation engine of the       *)
(* economic simulation in src/src/main.rs: Inventory's guarded arithmetic, *)
(* the per-producer transition of Agent::run_production_step, the Market   *)
(* tick over its agents, and the agent builder that attaches strategies.   *)
(***************************************************************************)
EXTENDS Integers, Sequences, FiniteSets, TLC

VARIABLES
    production_strategies, \* Market.production_strategies: name -> ProductionStrategy
    agents,                \* Market.agents: AgentId -> Agent
    overflow_checks,       \* build profile: TRUE when u32 overflow panics, FALSE when it wraps
    panicked,              \* TRUE once a call has panicked (the process stops there)
    last_step,             \* history: per agent, what the last tick did to each producer
    ticks,                 \* Market.run_production_step calls made so far
    inv,                   \* an Inventory that is called directly
    last_call,             \* history: the Inventory or builder call just made, if any
    initial_stock,         \* history: commodity -> amount the agents were configured with
    jobs                   \* history: per agent, completions that returned so far

vars == <<production_strategies, agents, overflow_checks, panicked, last_step, ticks, inv,
          last_call, initial_stock, jobs>>

(***************************************************************************)
(* Bounds of the model.                                                    *)
(***************************************************************************)
MaxCapacity == 4     \* capacities and amounts of the inventories Init draws
MaxAgents == 2       \* agents of a market
MaxProducers == 2    \* producers of a market
MaxDuration == 2     \* durations of the strategies in the catalog
MaxArg == 5          \* argument n of a direct Inventory call
MaxTicks == 8        \* Market.run_production_step calls in a run

(***************************************************************************)
(* Program constants.                                                      *)
(***************************************************************************)
DEFAULT_INVENTORY_CAPACITY == 100
DEFAULT_INVENTORY_AMOUNT == 10
DEFAULT_BALANCE == 100

Commodities == {"water", "food"}

(***************************************************************************)
(* u32 arithmetic.  A u32 is held as the integer congruent to it modulo    *)
(* 2^32 in -2^31 .. 2^31 - 1 (its bit pattern read as two's complement),  *)
(* so 4294967295 is -1.  Wrapping addition and subtraction are then the    *)
(* integer ones (every magnitude of the model is far below 2^31), and the  *)
(* unsigned order is ULt.  A build with overflow checks panics where the   *)
(* other wraps.                                                            *)
(***************************************************************************)
ULt(a, b) == IF (a < 0) = (b < 0) THEN a < b ELSE b < 0

ULe(a, b) == a = b \/ ULt(a, b)

sub_u32(a, b, checks) == [panic |-> checks /\ ULt(a, b), val |-> a - b]

add_u32(a, b, checks) == [panic |-> checks /\ ULt(a + b, a), val |-> a + b]

(***************************************************************************)
(* Inventory.  Every call returns the inventory it leaves and whether it   *)
(* panicked; a panic leaves the inventory as it was at the panic.          *)
(***************************************************************************)
InventoryNew(capacity) ==
    [capacity |-> capacity, amount |-> DEFAULT_INVENTORY_AMOUNT, reserved |-> 0]

free(i, checks) == sub_u32(i.capacity, i.amount, checks)

unreserved(i, checks) == sub_u32(i.amount, i.reserved, checks)

Panic(i) == [inv |-> i, panic |-> TRUE]

Done(i) == [inv |-> i, panic |-> FALSE]

add(i, n, checks) ==
    LET room == free(i, checks)
        sum == add_u32(i.amount, n, checks)
    IN  IF room.panic \/ ULt(room.val, n) THEN Panic(i)
        ELSE IF sum.panic THEN Panic(i)
        ELSE Done([i EXCEPT !.amount = sum.val])

remove(i, n, checks) ==
    LET room == free(i, checks)
        diff == sub_u32(i.amount, n, checks)
    IN  IF room.panic \/ ULt(room.val, n) THEN Panic(i)
        ELSE IF diff.panic THEN Panic(i)
        ELSE Done([i EXCEPT !.amount = diff.val])

reserve(i, n, checks) ==
    LET avail == unreserved(i, checks)
        sum == add_u32(i.reserved, n, checks)
    IN  IF avail.panic \/ ULt(avail.val, n) THEN Panic(i)
        ELSE IF sum.panic THEN Panic(i)
        ELSE Done([i EXCEPT !.reserved = sum.val])

unreserve(i, n, checks) ==
    LET avail == unreserved(i, checks)
        diff == sub_u32(i.reserved, n, checks)
    IN  IF avail.panic \/ ULt(avail.val, n) THEN Panic(i)
        ELSE IF diff.panic THEN Panic(i)
        ELSE Done([i EXCEPT !.reserved = diff.val])

\* reserved <= amount <= capacity, as u32
InventoryInvariant(i) == ULe(i.reserved, i.amount) /\ ULe(i.amount, i.capacity)

(***************************************************************************)
(* Strategies.  A requirement is a (commodity_name, amount) pair; the      *)
(* catalog holds the strategies of main and of the test, and two more      *)
(* shapes: a strategy that lists one commodity twice and one that needs    *)
(* more than one unit.                                                     *)
(***************************************************************************)
ProductionRequirement(commodity_name, amount) ==
    [commodity_name |-> commodity_name, amount |-> amount]

ProductionStrategy(inputs, outputs, duration) ==
    [inputs |-> inputs, outputs |-> outputs, duration |-> duration]

Catalog ==
    ("farmer" :> ProductionStrategy(<<ProductionRequirement("water", 1)>>,
                                    <<ProductionRequirement("food", 1)>>, MaxDuration))
    @@ ("water-source" :> ProductionStrategy(<<>>,
                                    <<ProductionRequirement("water", 1)>>, 1))
    @@ ("brewer" :> ProductionStrategy(<<ProductionRequirement("water", 1),
                                         ProductionRequirement("water", 1)>>,
                                       <<ProductionRequirement("food", 1)>>, 1))
    @@ ("miller" :> ProductionStrategy(<<ProductionRequirement("water", 2)>>,
                                       <<ProductionRequirement("food", 2)>>, 1))

ProducerNew(production_strategy_name) ==
    [production_strategy_name |-> production_strategy_name, progress |-> 0]

(***************************************************************************)
(* Agent::run_production_step.  The closure over one producer is           *)
(* ProducerTransition; its loops over the requirements are the recursive   *)
(* operators below, each in listed order and each stopping at a panic.     *)
(***************************************************************************)
RECURSIVE inputs_are_satisfied(_, _, _, _)
\* .all(): "true", "false" at the first unsatisfied requirement, or "panic"
inputs_are_satisfied(inventories, reqs, k, checks) ==
    IF k > Len(reqs) THEN "true"
    ELSE IF reqs[k].commodity_name \notin DOMAIN inventories THEN "panic"
    ELSE LET avail == unreserved(inventories[reqs[k].commodity_name], checks)
         IN  IF avail.panic THEN "panic"
             ELSE IF ULe(reqs[k].amount, avail.val)
                  THEN inputs_are_satisfied(inventories, reqs, k + 1, checks)
                  ELSE "false"

RECURSIVE has_room_for_outputs(_, _, _, _)
has_room_for_outputs(inventories, reqs, k, checks) ==
    IF k > Len(reqs) THEN "true"
    ELSE IF reqs[k].commodity_name \notin DOMAIN inventories THEN "panic"
    ELSE LET room == free(inventories[reqs[k].commodity_name], checks)
         IN  IF room.panic THEN "panic"
             ELSE IF ULe(reqs[k].amount, room.val)
                  THEN has_room_for_outputs(inventories, reqs, k + 1, checks)
                  ELSE "false"

Stopped(inventories) == [inventories |-> inventories, panic |-> TRUE]

Continue(inventories) == [inventories |-> inventories, panic |-> FALSE]

\* the inventories with the inventory of commodity c as the call r left it
Put(inventories, c, r) ==
    [inventories |-> [inventories EXCEPT ![c] = r.inv], panic |-> r.panic]

\* inventories.get_mut(..).unwrap(), then reserve
ReserveInput(inventories, req, checks) ==
    IF req.commodity_name \notin DOMAIN inventories THEN Stopped(inventories)
    ELSE Put(inventories, req.commodity_name,
             reserve(inventories[req.commodity_name], req.amount, checks))

\* remove, then unreserve
AfterRemove(removed, n, checks) ==
    IF removed.panic THEN removed ELSE unreserve(removed.inv, n, checks)

ConsumeInput(inventories, req, checks) ==
    IF req.commodity_name \notin DOMAIN inventories THEN Stopped(inventories)
    ELSE Put(inventories, req.commodity_name,
             AfterRemove(remove(inventories[req.commodity_name], req.amount, checks),
                         req.amount, checks))

AddOutput(inventories, req, checks) ==
    IF req.commodity_name \notin DOMAIN inventories THEN Stopped(inventories)
    ELSE Put(inventories, req.commodity_name,
             add(inventories[req.commodity_name], req.amount, checks))

RECURSIVE reserve_inputs(_, _, _, _)
ReserveRest(r, reqs, k, checks) ==
    IF r.panic THEN r ELSE reserve_inputs(r.inventories, reqs, k + 1, checks)

reserve_inputs(inventories, reqs, k, checks) ==
    IF k > Len(reqs) THEN Continue(inventories)
    ELSE ReserveRest(ReserveInput(inventories, reqs[k], checks), reqs, k, checks)

RECURSIVE consume_inputs(_, _, _, _)
ConsumeRest(r, reqs, k, checks) ==
    IF r.panic THEN r ELSE consume_inputs(r.inventories, reqs, k + 1, checks)

consume_inputs(inventories, reqs, k, checks) ==
    IF k > Len(reqs) THEN Continue(inventories)
    ELSE ConsumeRest(ConsumeInput(inventories, reqs[k], checks), reqs, k, checks)

RECURSIVE add_outputs(_, _, _, _)
AddRest(r, reqs, k, checks) ==
    IF r.panic THEN r ELSE add_outputs(r.inventories, reqs, k + 1, checks)

add_outputs(inventories, reqs, k, checks) ==
    IF k > Len(reqs) THEN Continue(inventories)
    ELSE AddRest(AddOutput(inventories, reqs[k], checks), reqs, k, checks)

Outcome(inventories, progress, panic) ==
    [inventories |-> inventories, progress |-> progress, panic |-> panic]

\* if inputs_are_satisfied { reserve each input; progress += 1 }
Reserved(r, producer) ==
    Outcome(r.inventories, IF r.panic THEN producer.progress ELSE producer.progress + 1,
            r.panic)

\* Started without the inputs_are_satisfied test: reserves whatever the check said
Started_Unchecked(inventories, producer, strategy, checks, satisfied) ==
    IF satisfied = "panic" THEN Outcome(inventories, producer.progress, TRUE)
    ELSE Reserved(reserve_inputs(inventories, strategy.inputs, 1, checks), producer)

Started(inventories, producer, strategy, checks, satisfied) ==
    IF satisfied = "panic" THEN Outcome(inventories, producer.progress, TRUE)
    ELSE IF satisfied = "false" THEN Outcome(inventories, producer.progress, FALSE)
    ELSE Reserved(reserve_inputs(inventories, strategy.inputs, 1, checks), producer)

\* Start production: progress = 0
StartProduction(inventories, producer, strategy, checks) ==
    Started(inventories, producer, strategy, checks,
            inputs_are_satisfied(inventories, strategy.inputs, 1, checks))

\* if has_room_for_outputs { consume each input; add each output; progress = 0 }
Produced(r, producer) ==
    Outcome(r.inventories, IF r.panic THEN producer.progress ELSE 0, r.panic)

Consumed(r, producer, strategy, checks) ==
    IF r.panic THEN Outcome(r.inventories, producer.progress, TRUE)
    ELSE Produced(add_outputs(r.inventories, strategy.outputs, 1, checks), producer)

\* Completed without the has_room_for_outputs test: completes whatever the check said
Completed_Unchecked(inventories, producer, strategy, checks, room) ==
    IF room = "panic" THEN Outcome(inventories, producer.progress, TRUE)
    ELSE Consumed(consume_inputs(inventories, strategy.inputs, 1, checks),
                  producer, strategy, checks)

Completed(inventories, producer, strategy, checks, room) ==
    IF room = "panic" THEN Outcome(inventories, producer.progress, TRUE)
    ELSE IF room = "false" THEN Outcome(inventories, producer.progress, FALSE)
    ELSE Consumed(consume_inputs(inventories, strategy.inputs, 1, checks),
                  producer, strategy, checks)

\* duration <= progress
CompleteProduction(inventories, producer, strategy, checks) ==
    Completed(inventories, producer, strategy, checks,
              has_room_for_outputs(inventories, strategy.outputs, 1, checks))

\* the completion test written with < : completion comes one step late
Transition_LateCompletion(inventories, producer, strategy, checks) ==
    IF producer.progress = 0
    THEN StartProduction(inventories, producer, strategy, checks)
    ELSE IF strategy.duration < producer.progress
    THEN CompleteProduction(inventories, producer, strategy, checks)
    ELSE Outcome(inventories, producer.progress + 1, FALSE)

\* the accumulate branch reserving the inputs again on every step
Transition_ReservesEachTick(inventories, producer, strategy, checks) ==
    IF producer.progress = 0
    THEN StartProduction(inventories, producer, strategy, checks)
    ELSE IF strategy.duration <= producer.progress
    THEN CompleteProduction(inventories, producer, strategy, checks)
    ELSE Outcome(reserve_inputs(inventories, strategy.inputs, 1, checks).inventories,
                 producer.progress + 1, FALSE)

Transition(inventories, producer, strategy, checks) ==
    IF producer.progress = 0
    THEN StartProduction(inventories, producer, strategy, checks)
    ELSE IF strategy.duration <= producer.progress
    THEN CompleteProduction(inventories, producer, strategy, checks)
    ELSE Outcome(inventories, producer.progress + 1, FALSE)

\* production_strategies.get(name).unwrap(), then the transition
ProducerTransition(inventories, producer, strategies, checks) ==
    IF producer.production_strategy_name \notin DOMAIN strategies
    THEN Outcome(inventories, producer.progress, TRUE)
    ELSE Transition(inventories, producer,
                    strategies[producer.production_strategy_name], checks)

\* One entry of last_step: a producer's transition, with what it started from.
StepEntry(agent, k, out) ==
    [producer |-> k,
     inventories_before |-> agent.inventories,
     progress_before |-> agent.producers[k].progress,
     inventories |-> out.inventories,
     progress |-> out.progress,
     panic |-> out.panic]

RECURSIVE AgentSteps(_, _, _, _, _)
\* the agent and the log after producer k's transition out, then the later producers
AfterTransition(agent, k, log, strategies, checks, out) ==
    IF out.panic
    THEN [agent |-> [agent EXCEPT !.inventories = out.inventories,
                                  !.producers[k].progress = out.progress],
          panic |-> TRUE,
          log |-> Append(log, StepEntry(agent, k, out))]
    ELSE AgentSteps([agent EXCEPT !.inventories = out.inventories,
                                  !.producers[k].progress = out.progress],
                    k + 1, Append(log, StepEntry(agent, k, out)), strategies, checks)

\* producers.for_each from producer k on; log holds the transitions made so far
AgentSteps(agent, k, log, strategies, checks) ==
    IF k > Len(agent.producers) THEN [agent |-> agent, panic |-> FALSE, log |-> log]
    ELSE AfterTransition(agent, k, log, strategies, checks,
                         ProducerTransition(agent.inventories, agent.producers[k],
                                            strategies, checks))

Agent_run_production_step(agent, strategies, checks) ==
    AgentSteps(agent, 1, <<>>, strategies, checks)

(***************************************************************************)
(* Market::run_production_step.  agents.iter_mut() visits the HashMap in   *)
(* an order the program does not choose: order is any sequence of all the  *)
(* agent ids.  A panic in one agent ends the tick there.                   *)
(***************************************************************************)
Orders(ids) ==
    {o \in [1..Cardinality(ids) -> ids] : \A i, j \in DOMAIN o : o[i] = o[j] => i = j}

RECURSIVE MarketSteps(_, _, _, _, _, _)
AfterAgent(ags, order, k, log, strategies, checks, r) ==
    IF r.panic
    THEN [agents |-> [ags EXCEPT ![order[k]] = r.agent],
          panic |-> TRUE,
          log |-> [log EXCEPT ![order[k]] = r.log]]
    ELSE MarketSteps([ags EXCEPT ![order[k]] = r.agent], order, k + 1,
                     [log EXCEPT ![order[k]] = r.log], strategies, checks)

MarketSteps(ags, order, k, log, strategies, checks) ==
    IF k > Len(order) THEN [agents |-> ags, panic |-> FALSE, log |-> log]
    ELSE AfterAgent(ags, order, k, log, strategies, checks,
                    Agent_run_production_step(ags[order[k]], strategies, checks))

NothingStepped(ags) == [a \in DOMAIN ags |-> <<>>]

Market_run_production_step(ags, order, strategies, checks) ==
    MarketSteps(ags, order, 1, NothingStepped(ags), strategies, checks)

(***************************************************************************)
(* Market::add_agent and MarketAgentBuilder::add_production_strategy.      *)
(***************************************************************************)
AgentNew == [inventories |-> <<>>, producers |-> <<>>, balance |-> DEFAULT_BALANCE]

RequiredCommodities(strategy) ==
    {strategy.inputs[k].commodity_name : k \in DOMAIN strategy.inputs}
        \cup {strategy.outputs[k].commodity_name : k \in DOMAIN strategy.outputs}

\* inventories.insert(commodity_name, Inventory::new(..)) for every requirement
MarketAgentBuilder_add_production_strategy(agent, production_strategy_name, strategies) ==
    IF production_strategy_name \notin DOMAIN strategies
    THEN [agent |-> agent, panic |-> TRUE]
    ELSE LET inserted == RequiredCommodities(strategies[production_strategy_name])
         IN  [agent |->
                 [agent EXCEPT
                     !.producers = Append(@, ProducerNew(production_strategy_name)),
                     !.inventories =
                         [c \in DOMAIN @ \cup inserted |->
                             IF c \in inserted
                             THEN InventoryNew(DEFAULT_INVENTORY_CAPACITY)
                             ELSE @[c]]],
              panic |-> FALSE]

(***************************************************************************)
(* Configured markets: at most MaxAgents agents with at least one producer *)
(* each and at most MaxProducers producers in all, every producer idle.    *)
(* An agent holds an inventory for every commodity its strategies name,    *)
(* as the builder leaves it, with capacity MaxCapacity and, in place of    *)
(* the default amount, the starting stock of that commodity.               *)
(***************************************************************************)
StrategyNames == DOMAIN Catalog

RECURSIVE MarketShapes(_, _)
MarketShapes(n, budget) ==
    IF n = 0 THEN {<<>>}
    ELSE UNION {{Append(m, names) : m \in MarketShapes(n - 1, budget - k),
                                    names \in [1..k -> StrategyNames]}
                : k \in 1..(budget - (n - 1))}

ConfiguredAgent(names, stock, strategies) ==
    [inventories |->
        [c \in UNION {RequiredCommodities(strategies[names[k]]) : k \in DOMAIN names} |->
            [capacity |-> MaxCapacity, amount |-> stock[c], reserved |-> 0]],
     producers |-> [k \in DOMAIN names |-> ProducerNew(names[k])],
     balance |-> DEFAULT_BALANCE]

NoCall == [op |-> "none"]

Init ==
    /\ production_strategies = Catalog
    /\ overflow_checks \in BOOLEAN
    /\ \E n \in 1..MaxAgents, stock \in [Commodities -> 0..MaxCapacity] :
         \E shape \in MarketShapes(n, MaxProducers) :
            /\ agents = [a \in DOMAIN shape |->
                            ConfiguredAgent(shape[a], stock, production_strategies)]
            /\ initial_stock = stock
    /\ jobs = [a \in DOMAIN agents |-> 0]
    /\ panicked = FALSE
    /\ last_step = NothingStepped(agents)
    /\ ticks = 0
    /\ inv = InventoryNew(DEFAULT_INVENTORY_CAPACITY)
    /\ last_call = NoCall

\* entry e of a tick's log is a completion that returned: the job is done
JobDone(e) == e.progress_before > 0 /\ e.progress = 0 /\ ~e.panic

Ticked(r) ==
    /\ agents' = r.agents
    /\ panicked' = r.panic
    /\ last_step' = r.log
    /\ jobs' = [a \in DOMAIN jobs |->
                  jobs[a] + Cardinality({k \in DOMAIN r.log[a] : JobDone(r.log[a][k])})]

RunProductionStep ==
    /\ ~panicked
    /\ ticks < MaxTicks
    /\ \E order \in Orders(DOMAIN agents) :
         Ticked(Market_run_production_step(agents, order, production_strategies,
                                           overflow_checks))
    /\ ticks' = ticks + 1
    /\ last_call' = NoCall
    /\ UNCHANGED <<production_strategies, overflow_checks, inv, initial_stock>>

Next == RunProductionStep

Spec == Init /\ [][Next]_vars

(***************************************************************************)
(* The builder at work: the market starts with its catalog and no agent;   *)
(* agents are added and strategies attached at any time between ticks      *)
(* (Market::add_agent and Market::get_agents_mut hand out the builder).    *)
(* Attaching a name the catalog lacks panics on the unwrap.                *)
(***************************************************************************)
UnknownName == "unknown"

TotalProducers(ags) ==
    LET RECURSIVE Count(_)
        Count(a) == IF a = 0 THEN 0 ELSE Len(ags[a].producers) + Count(a - 1)
    IN  Count(Len(ags))

InitBuilder ==
    /\ production_strategies = Catalog
    /\ overflow_checks \in BOOLEAN
    /\ agents = <<>>
    /\ initial_stock = [c \in Commodities |-> DEFAULT_INVENTORY_AMOUNT]
    /\ jobs = <<>>
    /\ panicked = FALSE
    /\ last_step = <<>>
    /\ ticks = 0
    /\ inv = InventoryNew(DEFAULT_INVENTORY_CAPACITY)
    /\ last_call = NoCall

AddAgent ==
    /\ ~panicked
    /\ Len(agents) < MaxAgents
    /\ agents' = Append(agents, AgentNew)
    /\ last_step' = NothingStepped(agents')
    /\ last_call' = [op |-> "add_agent"]
    /\ jobs' = Append(jobs, 0)
    /\ UNCHANGED <<production_strategies, overflow_checks, panicked, ticks, inv,
                   initial_stock>>

Attached(a, name, r) ==
    /\ agents' = [agents EXCEPT ![a] = r.agent]
    /\ panicked' = r.panic
    /\ last_call' = [op |-> "add_production_strategy", agent |-> a, name |-> name,
                     before |-> agents[a], panic |-> r.panic]

AddProductionStrategy ==
    /\ ~panicked
    /\ TotalProducers(agents) < MaxProducers
    /\ \E a \in DOMAIN agents, name \in StrategyNames \cup {UnknownName} :
         Attached(a, name,
                  MarketAgentBuilder_add_production_strategy(agents[a], name,
                                                             production_strategies))
    /\ last_step' = NothingStepped(agents')
    /\ UNCHANGED <<production_strategies, overflow_checks, ticks, inv, initial_stock, jobs>>

NextBuilder == AddAgent \/ AddProductionStrategy \/ RunProductionStep

SpecBuilder == InitBuilder /\ [][NextBuilder]_vars

(***************************************************************************)
(* Inventory called directly: one call of add, remove, reserve or          *)
(* unreserve with any n up to MaxArg on any inventory within MaxCapacity   *)
(* that satisfies reserved <= amount <= capacity.                          *)
(***************************************************************************)
InitInventory ==
    /\ production_strategies = Catalog
    /\ overflow_checks \in BOOLEAN
    /\ agents = <<>>
    /\ initial_stock = [c \in Commodities |-> DEFAULT_INVENTORY_AMOUNT]
    /\ jobs = <<>>
    /\ panicked = FALSE
    /\ last_step = <<>>
    /\ ticks = 0
    /\ \E capacity \in 0..MaxCapacity :
         \E amount \in 0..capacity :
            \E held \in 0..amount :
               inv = [capacity |-> capacity, amount |-> amount, reserved |-> held]
    /\ last_call = NoCall

Call(op, n, r) ==
    /\ last_call.op = "none"
    /\ inv' = r.inv
    /\ panicked' = r.panic
    /\ last_call' = [op |-> op, n |-> n, before |-> inv, panic |-> r.panic]
    /\ UNCHANGED <<production_strategies, agents, overflow_checks, last_step, ticks,
                   initial_stock, jobs>>

Add == \E n \in 0..MaxArg : Call("add", n, add(inv, n, overflow_checks))

Remove == \E n \in 0..MaxArg : Call("remove", n, remove(inv, n, overflow_checks))

Reserve == \E n \in 0..MaxArg : Call("reserve", n, reserve(inv, n, overflow_checks))

Unreserve == \E n \in 0..MaxArg : Call("unreserve", n, unreserve(inv, n, overflow_checks))

NextInventory == Add \/ Remove \/ Reserve \/ Unreserve

SpecInventory == InitInventory /\ [][NextInventory]_vars

(***************************************************************************)
(* Properties.                                                             *)
(***************************************************************************)
AllInventories(P(_)) ==
    \A a \in DOMAIN agents : \A c \in DOMAIN agents[a].inventories :
        P(agents[a].inventories[c])

\* every producer transition of the tick just made: P(agent id, entry, strategy)
AllTransitions(P(_, _, _)) ==
    \A a \in DOMAIN last_step : \A k \in DOMAIN last_step[a] :
        P(a, last_step[a][k],
          production_strategies[agents[a].producers[last_step[a][k].producer]
                                    .production_strategy_name])

SomeTransition(P(_, _, _)) ==
    \E a \in DOMAIN last_step : \E k \in DOMAIN last_step[a] :
        P(a, last_step[a][k],
          production_strategies[agents[a].producers[last_step[a][k].producer]
                                    .production_strategy_name])

RECURSIVE RequiredTotal(_, _, _)
\* the sum of the amounts that reqs[k..] require of commodity c
RequiredTotal(reqs, c, k) ==
    IF k > Len(reqs) THEN 0
    ELSE (IF reqs[k].commodity_name = c THEN reqs[k].amount ELSE 0)
         + RequiredTotal(reqs, c, k + 1)

\* every input requirement has unreserved >= its amount
InputsSatisfied(inventories, strategy) ==
    \A k \in DOMAIN strategy.inputs :
        inventories[strategy.inputs[k].commodity_name].amount
            - inventories[strategy.inputs[k].commodity_name].reserved
        >= strategy.inputs[k].amount

\* every input commodity has unreserved >= all that the strategy requires of it
InputsCovered(inventories, strategy) ==
    \A k \in DOMAIN strategy.inputs :
        inventories[strategy.inputs[k].commodity_name].amount
            - inventories[strategy.inputs[k].commodity_name].reserved
        >= RequiredTotal(strategy.inputs, strategy.inputs[k].commodity_name, 1)

\* every output requirement has free >= its amount
OutputsHaveRoom(inventories, strategy) ==
    \A k \in DOMAIN strategy.outputs :
        inventories[strategy.outputs[k].commodity_name].capacity
            - inventories[strategy.outputs[k].commodity_name].amount
        >= strategy.outputs[k].amount

Idle(e) == e.progress_before = 0

Accumulating(e, strategy) ==
    0 < e.progress_before /\ e.progress_before < strategy.duration

ReadyToComplete(e, strategy) ==
    0 < e.progress_before /\ strategy.duration <= e.progress_before

AmountsUnchanged(e) ==
    \A c \in DOMAIN e.inventories_before :
        e.inventories[c].amount = e.inventories_before[c].amount

NothingChanged(e) ==
    /\ ~e.panic
    /\ e.progress = e.progress_before
    /\ e.inventories = e.inventories_before

\* C1: in every state reached by Market.run_production_step calls from a
\* configured market, every inventory of every agent satisfies
\* 0 <= reserved <= amount <= capacity.
C1_InventoryInvariant == AllInventories(InventoryInvariant)

\* C1 where it does hold: every state a tick returned to (no panic).
C1_InvariantAfterReturn == ~panicked => AllInventories(InventoryInvariant)

\* C2: no Inventory guard fails during Agent.run_production_step: every
\* transition of every producer of a configured agent ends without a panic.
C2_NoGuardFails == AllTransitions(LAMBDA a, e, strategy : ~e.panic)

\* C3: a job runs to completion.  A step of an idle producer whose inputs are
\* satisfied sets progress to 1 and leaves every amount unchanged; a step of an
\* accumulating producer adds 1 to progress and leaves every amount unchanged;
\* the step after progress reached the duration, with room for the outputs,
\* sets progress to 0, lowers amount and reserved of every input commodity by
\* the amount required and raises the amount of every output commodity by the
\* amount declared.
C3_Started(a, e, strategy) ==
    (Idle(e) /\ InputsCovered(e.inventories_before, strategy))
        => ~e.panic /\ e.progress = 1 /\ AmountsUnchanged(e)

C3_Accumulated(a, e, strategy) ==
    Accumulating(e, strategy)
        => ~e.panic /\ e.progress = e.progress_before + 1 /\ AmountsUnchanged(e)

C3_Completed(a, e, strategy) ==
    (ReadyToComplete(e, strategy) /\ OutputsHaveRoom(e.inventories_before, strategy))
        => /\ ~e.panic
           /\ e.progress = 0
           /\ \A c \in DOMAIN e.inventories_before :
                /\ e.inventories[c].amount =
                       e.inventories_before[c].amount
                           - RequiredTotal(strategy.inputs, c, 1)
                           + RequiredTotal(strategy.outputs, c, 1)
                /\ e.inventories[c].reserved =
                       e.inventories_before[c].reserved
                           - RequiredTotal(strategy.inputs, c, 1)

\* C3: every transition of a tick is one of the three steps of a job as claimed:
\* started, accumulated, or completed after step d+1.
C3_JobRunsToCompletion ==
    AllTransitions(LAMBDA a, e, strategy :
        C3_Started(a, e, strategy) /\ C3_Accumulated(a, e, strategy)
            /\ C3_Completed(a, e, strategy))

\* C4: stepping a ReadyToComplete producer while one of its output commodities
\* has free < required amount changes nothing: no inventory's amount or
\* reserved, not the producer's progress, and it does not panic.
C4_BlockedStepChangesNothing ==
    AllTransitions(LAMBDA a, e, strategy :
        (ReadyToComplete(e, strategy) /\ ~OutputsHaveRoom(e.inventories_before, strategy))
            => NothingChanged(e))

\* a producer holding a reservation was stepped while blocked
C4_Witness ==
    SomeTransition(LAMBDA a, e, strategy :
        /\ ReadyToComplete(e, strategy)
        /\ ~OutputsHaveRoom(e.inventories_before, strategy)
        /\ \E k \in DOMAIN strategy.inputs :
              e.inventories[strategy.inputs[k].commodity_name].reserved > 0)

\* C5: starvation is silent and permanent.  A step of an idle producer one of
\* whose input commodities has unreserved < required amount changes nothing and
\* does not panic; when it is the agent's only producer the agent is left
\* starved, so every later step does the same.
Starved(inventories, strategy) == ~InputsSatisfied(inventories, strategy)

C5_StarvationSilentAndPermanent ==
    AllTransitions(LAMBDA a, e, strategy :
        (Idle(e) /\ Starved(e.inventories_before, strategy))
            => /\ NothingChanged(e)
               /\ Len(agents[a].producers) = 1
                    => /\ agents[a].producers[1].progress = 0
                       /\ Starved(agents[a].inventories, strategy))

\* a sole producer starved on two ticks in a row
C5_Witness ==
    /\ ticks >= 2
    /\ SomeTransition(LAMBDA a, e, strategy :
        /\ Len(agents[a].producers) = 1
        /\ Idle(e)
        /\ Starved(e.inventories_before, strategy))

\* C6: the state after Market.run_production_step is the same for every order
\* in which the agents are visited.
C6_OrderIndependent ==
    \A o1, o2 \in Orders(DOMAIN agents) :
        Market_run_production_step(agents, o1, production_strategies,
                                   overflow_checks).agents
        = Market_run_production_step(agents, o2, production_strategies,
                                     overflow_checks).agents

\* C7: Inventory.remove(n) succeeds exactly when n <= amount, and then lowers
\* amount by n and changes nothing else; when n > amount it fails and leaves
\* the inventory unchanged.
C7_RemoveContract ==
    last_call.op = "remove"
        => /\ ~last_call.panic <=> last_call.n <= last_call.before.amount
           /\ ~last_call.panic
                => inv = [last_call.before EXCEPT !.amount = @ - last_call.n]
           /\ last_call.panic => inv = last_call.before

\* C8: Inventory.unreserve(n) succeeds exactly when n <= reserved, and then
\* lowers reserved by n and changes nothing else; when n > reserved it fails
\* and leaves the inventory unchanged.
C8_UnreserveContract ==
    last_call.op = "unreserve"
        => /\ ~last_call.panic <=> last_call.n <= last_call.before.reserved
           /\ ~last_call.panic
                => inv = [last_call.before EXCEPT !.reserved = @ - last_call.n]
           /\ last_call.panic => inv = last_call.before

\* C9: add, remove, reserve and unreserve, called with any n on an inventory
\* that satisfies reserved <= amount <= capacity, either fail or return with
\* reserved <= amount <= capacity.
C9_CallsKeepInvariant ==
    (last_call.op \in {"add", "remove", "reserve", "unreserve"} /\ ~last_call.panic)
        => InventoryInvariant(inv)

\* C10: attaching a strategy adds exactly one producer with progress 0, leaves
\* the agent with an inventory for every commodity of the strategy, gives the
\* default amount and capacity to the commodities new to the agent, and leaves
\* every inventory the agent already held as it was.
C10_Attached(before, after, name) ==
    /\ after.producers = Append(before.producers, ProducerNew(name))
    /\ RequiredCommodities(production_strategies[name]) \subseteq DOMAIN after.inventories
    /\ \A c \in DOMAIN after.inventories \ DOMAIN before.inventories :
         after.inventories[c] = InventoryNew(DEFAULT_INVENTORY_CAPACITY)
    /\ \A c \in DOMAIN before.inventories :
         c \in DOMAIN after.inventories /\ after.inventories[c] = before.inventories[c]

\* C10: every attach that returns leaves the agent as claimed: one more idle
\* producer, defaults for new commodities only, held inventories unchanged.
C10_AttachKeepsHeldInventories ==
    (last_call.op = "add_production_strategy" /\ ~last_call.panic)
        => C10_Attached(last_call.before, agents[last_call.agent], last_call.name)

\* C11: starting a job is all-or-nothing.  After the step of an idle producer
\* either every inventory's reserved has grown by all that the strategy's
\* input requirements ask of its commodity and progress is 1, or no inventory
\* changed and progress is 0; a partly reserved state is never produced.
C11_AllReserved(e, strategy) ==
    /\ e.progress = 1
    /\ \A c \in DOMAIN e.inventories_before :
         e.inventories[c] =
             [e.inventories_before[c] EXCEPT
                 !.reserved = @ + RequiredTotal(strategy.inputs, c, 1)]

C11_NoneReserved(e) ==
    e.progress = 0 /\ e.inventories = e.inventories_before

C11_StartAllOrNothing ==
    AllTransitions(LAMBDA a, e, strategy :
        Idle(e) => C11_AllReserved(e, strategy) \/ C11_NoneReserved(e))

\* C12: completion conserves stock.  Whenever a ReadyToComplete producer is
\* stepped and every output commodity has free >= its required amount, the step
\* does not panic, progress becomes 0 and, per commodity, amount falls by the
\* sum of the strategy's input amounts and rises by the sum of its output
\* amounts, reserved falls by the sum of the input amounts, and capacity stays.
C12_CompletionConservesStock ==
    AllTransitions(LAMBDA a, e, strategy :
        (ReadyToComplete(e, strategy) /\ OutputsHaveRoom(e.inventories_before, strategy))
            => /\ ~e.panic
               /\ e.progress = 0
               /\ \A c \in DOMAIN e.inventories_before :
                    e.inventories[c] =
                        [e.inventories_before[c] EXCEPT
                            !.amount = @ - RequiredTotal(strategy.inputs, c, 1)
                                         + RequiredTotal(strategy.outputs, c, 1),
                            !.reserved = @ - RequiredTotal(strategy.inputs, c, 1)])

\* the strategy of the producer that entry e of agent a stepped
StrategyOf(a, e) ==
    production_strategies[agents[a].producers[e.producer].production_strategy_name]

\* entries i < j of agent a's tick: producers idle before the tick (as were all
\* between them) that both need commodity c, whose unreserved stock before the
\* earlier one's transition covers either need and the earlier one's other
\* inputs, but not both needs
C13_Contend(a, i, j, c) ==
    /\ i < j
    /\ \A k \in i..j : Idle(last_step[a][k])
    /\ RequiredTotal(StrategyOf(a, last_step[a][i]).inputs, c, 1) > 0
    /\ RequiredTotal(StrategyOf(a, last_step[a][j]).inputs, c, 1) > 0
    /\ InputsCovered(last_step[a][i].inventories_before, StrategyOf(a, last_step[a][i]))
    /\ last_step[a][i].inventories_before[c].amount
             - last_step[a][i].inventories_before[c].reserved
         >= RequiredTotal(StrategyOf(a, last_step[a][j]).inputs, c, 1)
    /\ last_step[a][i].inventories_before[c].amount
             - last_step[a][i].inventories_before[c].reserved
         < RequiredTotal(StrategyOf(a, last_step[a][i]).inputs, c, 1)
             + RequiredTotal(StrategyOf(a, last_step[a][j]).inputs, c, 1)

\* C13: when two idle producers of one agent need the same input commodity and
\* its unreserved stock suffices for only one of them, one step starts the
\* earlier one (progress 1, its inputs reserved) and leaves the later one idle
\* (progress 0, no panic) with no reservation of its own.
C13_EarlierProducerWins ==
    \A a \in DOMAIN last_step : \A i, j \in DOMAIN last_step[a] : \A c \in Commodities :
        C13_Contend(a, i, j, c)
            => /\ ~last_step[a][i].panic
               /\ C11_AllReserved(last_step[a][i], StrategyOf(a, last_step[a][i]))
               /\ ~last_step[a][j].panic
               /\ C11_NoneReserved(last_step[a][j])

\* C14: progress freezes once it reaches the duration.  In every state every
\* producer has progress <= its strategy's duration, and a step of a producer
\* whose progress has reached the duration either leaves progress as it was or
\* is a completion that returned, with room for the outputs, and set it to 0.
C14_ProgressFreezesAtDuration ==
    /\ \A a \in DOMAIN agents : \A k \in DOMAIN agents[a].producers :
         agents[a].producers[k].progress
             <= production_strategies[agents[a].producers[k].production_strategy_name].duration
    /\ AllTransitions(LAMBDA a, e, strategy :
         ReadyToComplete(e, strategy)
             => \/ e.progress = e.progress_before
                \/ /\ e.progress = 0
                   /\ ~e.panic
                   /\ OutputsHaveRoom(e.inventories_before, strategy))

\* a producer whose progress had reached the duration was stepped twice in a
\* row and the second step left it there
C14_Witness ==
    SomeTransition(LAMBDA a, e, strategy :
        /\ ticks >= strategy.duration + 2
        /\ ReadyToComplete(e, strategy)
        /\ e.progress = strategy.duration)

\* C15: a step of an Accumulating producer (0 < progress < duration) adds
\* exactly 1 to its progress, does not panic, and changes no inventory's
\* amount, reserved or capacity.
C15_AccumulatingStepOnlyCounts ==
    AllTransitions(LAMBDA a, e, strategy :
        Accumulating(e, strategy)
            => /\ ~e.panic
               /\ e.progress = e.progress_before + 1
               /\ e.inventories = e.inventories_before)

\* an accumulating producer that holds a reservation was stepped
C15_Witness ==
    SomeTransition(LAMBDA a, e, strategy :
        /\ Accumulating(e, strategy)
        /\ \E k \in DOMAIN strategy.inputs :
              e.inventories_before[strategy.inputs[k].commodity_name].reserved > 0)

\* C16: a fatal error leaves no partial mutation.  Whenever a producer's
\* transition panics, every inventory of the agent and the producer's progress
\* are what they were before that transition began.
C16_PanicLeavesNoMutation ==
    AllTransitions(LAMBDA a, e, strategy :
        e.panic => /\ e.inventories = e.inventories_before
                   /\ e.progress = e.progress_before)

\* the inventories producer k of the call was stepped against: the agent's own
\* for the first producer, those the producer before it left for the others
C17_SteppedAgainst(agent, log, k) ==
    IF k = 1 THEN agent.inventories ELSE log[k - 1].inventories

\* r is what Agent.run_production_step made of agent: log has one transition
\* per producer, in stored order, each the per-producer transition applied to
\* what the producer before it left; the agent after holds their outcomes and
\* differs from the agent before in nothing but amount, reserved and progress
C17_Applied(agent, r) ==
    /\ Len(r.log) = Len(agent.producers)
    /\ \A k \in DOMAIN r.log :
         /\ r.log[k].producer = k
         /\ r.log[k].progress_before = agent.producers[k].progress
         /\ r.log[k].inventories_before = C17_SteppedAgainst(agent, r.log, k)
         /\ Outcome(r.log[k].inventories, r.log[k].progress, r.log[k].panic)
              = ProducerTransition(r.log[k].inventories_before, agent.producers[k],
                                   production_strategies, overflow_checks)
         /\ r.agent.producers[k].progress = r.log[k].progress
    /\ r.agent.inventories = C17_SteppedAgainst(agent, r.log, Len(r.log) + 1)
    /\ DOMAIN r.agent.inventories = DOMAIN agent.inventories
    /\ \A c \in DOMAIN agent.inventories :
         r.agent.inventories[c].capacity = agent.inventories[c].capacity
    /\ r.agent.balance = agent.balance
    /\ Len(r.agent.producers) = Len(agent.producers)
    /\ \A k \in DOMAIN agent.producers :
         r.agent.producers[k].production_strategy_name
             = agent.producers[k].production_strategy_name

\* C17: one Agent.run_production_step call, made on any agent of any state a
\* run can be in, applies the per-producer transition to each of the agent's
\* producers exactly once, in stored order, and changes nothing of the agent
\* but its inventories' amount and reserved and its producers' progress:
\* capacities, balance, the set of inventories and the producers stay.
C17_EachProducerOnceNothingElse ==
    ~panicked
        => \A a \in DOMAIN agents :
             C17_Applied(agents[a],
                         Agent_run_production_step(agents[a], production_strategies,
                                                   overflow_checks))

RECURSIVE InFlightTotal(_, _, _)
\* the sum, over producers[k..] with progress > 0, of the input amounts their
\* strategies require of commodity c
InFlightTotal(producers, c, k) ==
    IF k > Len(producers) THEN 0
    ELSE (IF producers[k].progress > 0
          THEN RequiredTotal(production_strategies[producers[k].production_strategy_name]
                                 .inputs, c, 1)
          ELSE 0)
         + InFlightTotal(producers, c, k + 1)

\* C18: reservation accounting.  In every state reached by stepping configured
\* agents, every inventory's reserved equals the sum, over the agent's
\* producers with progress > 0, of the input amounts their strategies require
\* of its commodity.
C18_ReservedIsInFlightDemand ==
    \A a \in DOMAIN agents : \A c \in DOMAIN agents[a].inventories :
        agents[a].inventories[c].reserved = InFlightTotal(agents[a].producers, c, 1)

\* agent a has one producer, whose strategy takes n >= 1 of commodity c per
\* job and nothing else, and puts out no c
C19_SoleConsumer(a, c, strategy) ==
    /\ Len(agents[a].producers) = 1
    /\ strategy = production_strategies[agents[a].producers[1].production_strategy_name]
    /\ RequiredTotal(strategy.inputs, c, 1) >= 1
    /\ \A k \in DOMAIN strategy.inputs : strategy.inputs[k].commodity_name = c
    /\ RequiredTotal(strategy.outputs, c, 1) = 0

\* the outputs of all the jobs that the initial stock of c pays for fit
C19_OutputRoomAlways(a, c, strategy) ==
    \A k \in DOMAIN strategy.outputs :
        initial_stock[strategy.outputs[k].commodity_name]
            + (initial_stock[c] \div RequiredTotal(strategy.inputs, c, 1))
                * RequiredTotal(strategy.outputs, strategy.outputs[k].commodity_name, 1)
        <= agents[a].inventories[strategy.outputs[k].commodity_name].capacity

\* the sole producer is idle and c's unreserved stock is less than one job's n
C19_Quiescent(a, c, n) ==
    /\ agents[a].producers[1].progress = 0
    /\ agents[a].inventories[c].amount - agents[a].inventories[c].reserved < n

C19_Drains(a, c, n, duration) ==
    /\ \A k \in DOMAIN last_step[a] : ~last_step[a][k].panic
    /\ jobs[a] <= initial_stock[c] \div n
    /\ C19_Quiescent(a, c, n)
         => /\ jobs[a] = initial_stock[c] \div n
            /\ agents[a].inventories[c].reserved = 0
            /\ agents[a].inventories[c].amount = initial_stock[c] % n
    /\ (~panicked /\ ticks >= (initial_stock[c] \div n) * (duration + 1))
         => C19_Quiescent(a, c, n)

\* C19: drain to quiescence.  An agent whose only producer takes n >= 1 units
\* of a commodity that nothing replenishes, with room for every output of
\* every job, never panics, completes no more than initial amount \div n
\* jobs, has completed exactly that many when it is idle with less than n
\* unreserved, and then has reserved 0 and amount = initial amount % n; a job
\* takes duration + 1 steps, so it is in that state from step
\* (initial amount \div n) * (duration + 1) on, for ever.
C19_DrainsToQuiescence ==
    \A a \in DOMAIN agents : \A c \in Commodities : \A name \in DOMAIN production_strategies :
        (/\ C19_SoleConsumer(a, c, production_strategies[name])
         /\ C19_OutputRoomAlways(a, c, production_strategies[name]))
            => C19_Drains(a, c, RequiredTotal(production_strategies[name].inputs, c, 1),
                          production_strategies[name].duration)

====
